---- MODULE Spec2Model ----
(***************************************************************************)
(* MSFS Flight Monitor (src/main.py): the telemetry polling loop           *)
(* (monitor_flight), the control surface that starts and stops it          *)
(* (toggle_monitoring), the landing data shared between them, and the      *)
(* landing history with its durable file.                                  *)
(*                                                                         *)
(* Units: vertical speed in fpm, altitude in ft, g-force in tenths of g,   *)
(* distances in thousandths of a nautical mile, time in half seconds.      *)
(* A Python value that may be None is a sequence of length 0 or 1.         *)
(***************************************************************************)
EXTENDS Integers, Sequences, FiniteSets, TLC

(* ------------------------------ bounds -------------------------------- *)

\* monitoring sessions (polling threads) started in one run of the program
MaxSessions == 2
\* approach points emitted in one run of the program
MaxPath == 2
\* calls of save_landing_to_history in a row, from an empty history
MaxRecords == 102
\* calls of save_landing_to_history interleaved with clear_history
MaxStoreCalls == 2
\* points of an approach path whose statistics are computed on their own
MaxSummaryPath == 3

(* ------------------------- program constants -------------------------- *)

\* len(self.landing_history) > 100
HistoryCap == 100
\* alt < 3000
ApproachAlt == 3000
\* vs < -100
ApproachVs == -100
\* current_time - last_check_time > 2   (2 s, in half seconds)
CheckPeriod == 4
\* time.sleep(1)   (in half seconds)
TickSleep == 2
\* time.sleep(2)   (in half seconds)
ErrorSleep == 4
\* distance < 0.5   (in thousandths of a nautical mile)
PauseRadius == 500
\* one degree of latitude along a meridian: R * pi / 180 with R = 3440.065,
\* in thousandths of a nautical mile
NmPerDegree == 60040

(* ---------------------------- telemetry ------------------------------- *)

\* One successful round of aq.get reads (the heading only feeds the map):
\* SIM_ON_GROUND is 0 or 1.
SamplesOf(lats, alts, vss, gs) ==
    [lat : lats, lon : {0}, alt : alts, vs : vss, on_ground : {0, 1}, g_force : gs]

\* Samples of a flight over one place: in the air, descending fast enough for
\* an approach (-500 fpm below 3000 ft) or not (-50 fpm), or on the ground.
FlightSamples == {s \in SamplesOf({0}, {2000}, {-500, -50}, {12}) : s.on_ground = 1 => s.vs = -50}

Abs(x) == IF x < 0 THEN -x ELSE x

Min(a, b) == IF a < b THEN a ELSE b

(* ----------------------------- GeoMath -------------------------------- *)

\* latitudes and longitudes are held in thousandths of a degree
PerDegree == 1000

\* calculate_distance on points of one meridian, where the haversine formula
\* reduces to the arc R * |lat2 - lat1| (radians); every coordinate of the
\* samples and of the waypoints lies on the meridian lon = 0. The result is
\* in thousandths of a nautical mile, cut to a whole number of them.
calculate_distance(lat1, lon1, lat2, lon2) == (NmPerDegree * Abs(lat2 - lat1)) \div PerDegree

(* --------------------------- LandingRater ----------------------------- *)

\* a scoring whose breakpoints belong to the better score: 100 fpm scores 100
fpm_score_closed(fpm) ==
    LET abs_fpm == Abs(fpm) IN
    IF abs_fpm <= 100 THEN 100
    ELSE IF abs_fpm <= 200 THEN 85
    ELSE IF abs_fpm <= 300 THEN 70
    ELSE IF abs_fpm <= 400 THEN 50
    ELSE IF abs_fpm <= 600 THEN 30
    ELSE 10

fpm_score(fpm) ==
    LET abs_fpm == Abs(fpm) IN
    IF abs_fpm < 100 THEN 100
    ELSE IF abs_fpm < 200 THEN 85
    ELSE IF abs_fpm < 300 THEN 70
    ELSE IF abs_fpm < 400 THEN 50
    ELSE IF abs_fpm < 600 THEN 30
    ELSE 10

\* g_force in tenths of g: 1.3 is 13
g_score(g_force) ==
    IF g_force < 13 THEN 100
    ELSE IF g_force < 15 THEN 85
    ELSE IF g_force < 18 THEN 70
    ELSE IF g_force < 20 THEN 50
    ELSE IF g_force < 25 THEN 30
    ELSE 10

\* ten times combined_score = fpm_score * 0.6 + g_score * 0.4
combined_score10(fpm, g_force) == 6 * fpm_score(fpm) + 4 * g_score(g_force)

\* the number of stars and the text of the rating
get_landing_rating(fpm, g_force) ==
    LET c == combined_score10(fpm, g_force) IN
    IF c >= 950 THEN [stars |-> 5, text |-> "PERFECT - Butter Landing!"]
    ELSE IF c >= 800 THEN [stars |-> 4, text |-> "Excellent Landing"]
    ELSE IF c >= 650 THEN [stars |-> 3, text |-> "Good Landing"]
    ELSE IF c >= 450 THEN [stars |-> 2, text |-> "Acceptable Landing"]
    ELSE [stars |-> 1, text |-> "Hard Landing - Check Aircraft!"]

\* calculate_distance with all four arguments, on coordinates that are
\* multiples of 60 degrees, where every term of the haversine formula is a
\* fraction: sin(delta / 2) ** 2 in quarters, for delta a multiple of 60 degrees
sin2_half4(delta) == <<0, 1, 3, 4, 3, 1>>[((Abs(delta) \div 60) % 6) + 1]

\* math.cos(lat_rad) in halves, for the latitudes -60, 0 and 60 degrees
cos2(lat) == IF lat = 0 THEN 2 ELSE 1

\* R * c with c = 2 * asin(sqrt(a)), for a in sixteenths, in thousandths of a
\* nautical mile (R = 3440.065)
arc_length(a16) ==
    <<0, 1738473, 2486253, 3081145, 3602428, 4081292, 4534405, 4972506, 5403641,
      5834777, 6272878, 6725991, 7204855, 7726138, 8321030, 9068810, 10807283>>[a16 + 1]

\* a haversine formula that takes cos(lat1) for both latitudes
haversine_one_latitude(lat1, lon1, lat2, lon2) ==
    arc_length(Min(16, 4 * sin2_half4(lat2 - lat1) + cos2(lat1) * cos2(lat1) * sin2_half4(lon2 - lon1)))

\* a = sin(delta_lat/2)**2 + cos(lat1_rad) * cos(lat2_rad) * sin(delta_lon/2)**2
haversine(lat1, lon1, lat2, lon2) ==
    arc_length(4 * sin2_half4(lat2 - lat1) + cos2(lat1) * cos2(lat2) * sin2_half4(lon2 - lon1))

(* --------------------------- HistoryStore ----------------------------- *)

\* self.landing_history: a Python list of entries, or (after a load of a file
\* that holds JSON which is no array) a value without insert, such as {}.
EmptyHistory == [list |-> TRUE, items |-> <<>>]

\* The durable file ~/.msfs_landing_history.json: absent, text that json.load
\* rejects ("garbage", also what a write that fails half-way leaves behind),
\* a JSON array, or other valid JSON: the object {} ("object") or a scalar
\* such as 5 ("scalar").
AbsentFile == [kind |-> "absent", items |-> <<>>]

GarbageFile == [kind |-> "garbage", items |-> <<>>]

\* json.dump(self.landing_history, f)
json_dump(history) ==
    [kind |-> IF history.list THEN "array" ELSE "object", items |-> history.items]

\* json.load(f) of a file that parses
json_load(file) == [list |-> file.kind = "array", items |-> file.items]

\* load_landing_history: [] when the file is absent or json.load raises
load_landing_history(file) ==
    IF file.kind = "absent" THEN EmptyHistory
    ELSE IF file.kind = "garbage" THEN EmptyHistory
    ELSE json_load(file)

\* get_landing_rating and the history_entry dictionary of save_landing_to_history
\* (the timestamp, wall-clock text, is left out)
history_entry(data) ==
    LET r == get_landing_rating(data.touchdown_fpm[1], data.touchdown_g[1]) IN
    [fpm |-> data.touchdown_fpm[1], g_force |-> data.touchdown_g[1],
     lat |-> data.touchdown_lat[1], lon |-> data.touchdown_lon[1],
     airport |-> "Unknown", rating |-> r.stars, rating_text |-> r.text, shaped |-> TRUE]

\* self.landing_history.insert(0, history_entry) raises on a value that is no list
insert_raises(history) == ~history.list

\* self.landing_history.insert(0, history_entry)
history_insert(history, entry) == [history EXCEPT !.items = <<entry>> \o @]

\* if len(self.landing_history) > 100: self.landing_history = self.landing_history[:100]
\* a truncation that keeps the oldest HistoryCap entries, not the newest
history_truncate_oldest(history) ==
    IF Len(history.items) > HistoryCap
    THEN [history EXCEPT !.items = SubSeq(@, Len(@) - HistoryCap + 1, Len(@))]
    ELSE history

history_truncate(history) ==
    IF Len(history.items) > HistoryCap
    THEN [history EXCEPT !.items = SubSeq(@, 1, HistoryCap)]
    ELSE history

\* How one call of save_landing_history ends: the file written, open() failing
\* (the file keeps its content) or the write failing after open() truncated it.
WriteOutcomes == {"ok", "open_failed", "dump_failed"}

\* a save that leaves the file as it is
save_landing_history_unwritten(file, history, outcome) == file

\* the durable file after save_landing_history
save_landing_history(file, history, outcome) ==
    IF outcome = "ok" THEN json_dump(history)
    ELSE IF outcome = "open_failed" THEN file
    ELSE GarbageFile

\* save_landing_to_history dropping the entry again when the write fails
save_landing_to_history_rollback(history, file, entry, outcome) ==
    LET kept == history_truncate(history_insert(history, entry))
    IN [history |-> IF outcome = "ok" THEN kept ELSE history,
        file |-> save_landing_history(file, kept, outcome)]

\* save_landing_to_history on a list, run without interruption: the entry is
\* inserted at index 0, the list cut to its first 100 elements and written;
\* a failed write is caught and logged by save_landing_history, and the list
\* keeps the entry.
save_landing_to_history(history, file, entry, outcome) ==
    LET kept == history_truncate(history_insert(history, entry))
    IN [history |-> kept, file |-> save_landing_history(file, kept, outcome)]

\* update_history_table raises on a value without len(), and on an element
\* without the keys of an entry
update_history_table_raises(file) ==
    \/ file.kind = "scalar"
    \/ \E i \in 1..Len(file.items) : ~file.items[i].shaped

(* ------------------------------ state --------------------------------- *)

VARIABLES
    app,              \* "running" after __init__, "crashed" when __init__ raised
    monitoring,       \* self.monitoring
    threads,          \* the polling threads: position and locals of monitor_flight
    sessions,         \* the number of polling threads started so far
    landing_data,     \* self.landing_data; on_ground is the touchdown latch
    approach_path,    \* self.approach_path
    landing_history,  \* self.landing_history
    history_file,     \* the durable history file
    waypoints,        \* self.waypoints
    queue,            \* approach_signal emissions not yet delivered to the GUI thread
    recorder,         \* the polling thread inside save_landing_to_history, step by step
    clearer,          \* the GUI thread inside clear_history, step by step
    calls,            \* the number of calls of save_landing_to_history made on their own
    emitted,          \* history: the signals emitted by the latest step, in emission order
    prev_og,          \* history: the on_ground reading of the session's previous tick, -1 if none
    sample,           \* history: the readings of the session's latest tick that read them, if any
    ground_start,     \* history: the session began with the latch set and has read no on_ground = 0
    loaded,           \* history: the file __init__ found and what load_landing_history returned
    failed_write,     \* history: a write of the history file has failed
    returned          \* history: a call of save_landing_to_history or clear_history has returned

vars == <<app, monitoring, threads, sessions, landing_data, approach_path,
          landing_history, history_file, waypoints, queue, recorder, clearer, calls,
          emitted, prev_og, sample, ground_start, loaded, failed_write, returned>>

\* what only the step-by-step history operations change
store_vars == <<recorder, clearer, calls, loaded, failed_write, returned>>

ThreadIds == 1..MaxSessions

\* a thread that was not started yet
NoThread ==
    [pc |-> "idle", was_airborne |-> FALSE, recording_approach |-> FALSE, elapsed |-> 0,
     since_check |-> 0, least_gap |-> <<>>]

\* a thread whose monitor_flight returned (its locals are gone)
EndedThread ==
    [pc |-> "done", was_airborne |-> FALSE, recording_approach |-> FALSE, elapsed |-> 0,
     since_check |-> 0, least_gap |-> <<>>]

\* the locals of monitor_flight before its loop; elapsed is the time up to the
\* next tick since last_check_time. Two history fields go with them:
\* since_check, the time up to the next tick since the thread last ran a
\* proximity check (or started), and least_gap, the least time there was
\* between two consecutive checks of the thread or its start and first check.
monitor_flight_locals ==
    [pc |-> "loop", was_airborne |-> FALSE, recording_approach |-> FALSE, elapsed |-> 0,
     since_check |-> 0, least_gap |-> <<>>]

\* self.landing_data of __init__ and of reset_landing_data (timestamp and airport left out)
InitialLandingData ==
    [on_ground |-> TRUE, touchdown_fpm |-> <<>>, touchdown_g |-> <<>>,
     touchdown_lat |-> <<>>, touchdown_lon |-> <<>>,
     approach_distance |-> <<>>, avg_descent |-> <<>>]

\* an entry as save_landing_to_history writes it
SomeEntry ==
    [fpm |-> -50, g_force |-> 12, lat |-> 0, lon |-> 0, airport |-> "Unknown",
     rating |-> 5, rating_text |-> "PERFECT - Butter Landing!", shaped |-> TRUE]

\* a JSON object without the keys of an entry, as in the file [{}]
UnshapedEntry ==
    [fpm |-> 0, g_force |-> 0, lat |-> 0, lon |-> 0, airport |-> "",
     rating |-> 0, rating_text |-> "", shaped |-> FALSE]

ArrayFile(n, e) == [kind |-> "array", items |-> [i \in 1..n |-> e]]

\* What the durable file may hold when the program starts.
FileContents ==
    {AbsentFile, GarbageFile,
     [kind |-> "object", items |-> <<>>],
     [kind |-> "scalar", items |-> <<>>],
     ArrayFile(0, SomeEntry), ArrayFile(1, UnshapedEntry),
     ArrayFile(HistoryCap, SomeEntry), ArrayFile(HistoryCap + 1, SomeEntry)}

\* The files the program is started with here: no file (a first run), the
\* object {} and the scalar 5.
StartFiles == {AbsentFile, [kind |-> "object", items |-> <<>>], [kind |-> "scalar", items |-> <<>>]}

\* a thread that is not inside a history operation
Idle == [pc |-> "idle", snap |-> EmptyHistory]

\* __init__: the history is loaded, and create_history_tab fills the table
\* from it (update_history_table), which raises on a value it cannot show.
InitWith(files) ==
    /\ history_file \in files
    /\ landing_history = load_landing_history(history_file)
    /\ app = IF update_history_table_raises(history_file) THEN "crashed" ELSE "running"
    /\ monitoring = FALSE
    /\ threads = [t \in ThreadIds |-> NoThread]
    /\ sessions = 0
    /\ landing_data = InitialLandingData
    /\ approach_path = <<>>
    /\ waypoints = <<>>
    /\ queue = <<>>
    /\ emitted = <<>>
    /\ prev_og = -1
    /\ sample = <<>>
    /\ ground_start = FALSE
    /\ recorder = Idle
    /\ clearer = Idle
    /\ calls = 0
    /\ loaded = [file |-> history_file, result |-> landing_history]
    /\ failed_write = FALSE
    /\ returned = FALSE

Init == InitWith(StartFiles)

Event(type) == [type |-> type, data |-> <<>>]

EventWith(type, d) == [type |-> type, data |-> <<d>>]

\* the types of the signals emitted by the latest step
EmittedTypes == {emitted[i].type : i \in 1..Len(emitted)}

\* the number of signals of one type emitted by the latest step
CountEmitted(type) == Cardinality({i \in 1..Len(emitted) : emitted[i].type = type})

(* -------------------------- control surface --------------------------- *)

\* toggle_monitoring, the branch of "if not self.monitoring": a new polling
\* thread is started whether or not an earlier one has ended.
StartMonitoring ==
    /\ app = "running"
    /\ ~monitoring
    /\ sessions < MaxSessions
    /\ monitoring' = TRUE
    /\ approach_path' = <<>>
    /\ sessions' = sessions + 1
    /\ threads' = [threads EXCEPT ![sessions + 1] = monitor_flight_locals]
    /\ emitted' = <<>>
    /\ prev_og' = -1
    /\ sample' = <<>>
    /\ ground_start' = landing_data.on_ground
    /\ UNCHANGED <<app, landing_data, landing_history, history_file, waypoints, queue, store_vars>>

\* toggle_monitoring, the else branch
StopMonitoring ==
    /\ app = "running"
    /\ monitoring
    /\ monitoring' = FALSE
    /\ emitted' = <<>>
    /\ UNCHANGED <<app, threads, sessions, landing_data, approach_path, landing_history,
                   history_file, waypoints, queue, prev_og, sample, ground_start, store_vars>>

\* a delivery that takes the emission made last, not the one made first
add_approach_point_newest_first ==
    /\ app = "running"
    /\ queue # <<>>
    /\ approach_path' = Append(approach_path, queue[Len(queue)])
    /\ queue' = SubSeq(queue, 1, Len(queue) - 1)
    /\ emitted' = <<>>
    /\ UNCHANGED <<app, monitoring, threads, sessions, landing_data, landing_history,
                   history_file, waypoints, prev_og, sample, ground_start, store_vars>>

\* add_approach_point, run by the GUI thread for a queued approach_signal
add_approach_point ==
    /\ app = "running"
    /\ queue # <<>>
    /\ approach_path' = Append(approach_path, Head(queue))
    /\ queue' = Tail(queue)
    /\ emitted' = <<>>
    /\ UNCHANGED <<app, monitoring, threads, sessions, landing_data, landing_history,
                   history_file, waypoints, prev_og, sample, ground_start, store_vars>>

\* reset_landing_data
reset_landing_data ==
    /\ app = "running"
    /\ landing_data' = InitialLandingData
    /\ approach_path' = <<>>
    /\ emitted' = <<>>
    /\ UNCHANGED <<app, monitoring, threads, sessions, landing_history, history_file,
                   waypoints, queue, prev_og, sample, ground_start, store_vars>>

\* clear_history with the reply Yes
clear_history_yes ==
    /\ app = "running"
    /\ \E outcome \in WriteOutcomes :
        /\ landing_history' = EmptyHistory
        /\ history_file' = save_landing_history(history_file, EmptyHistory, outcome)
        /\ emitted' = (IF outcome = "ok" THEN <<>> ELSE <<Event("save_failed")>>)
                           \o <<Event("cleared")>>
    /\ UNCHANGED <<app, monitoring, threads, sessions, landing_data, approach_path,
                   waypoints, queue, prev_og, sample, ground_start, store_vars>>

\* clear_history with the reply No
clear_history_no ==
    /\ app = "running"
    /\ emitted' = <<>>
    /\ UNCHANGED <<app, monitoring, threads, sessions, landing_data, approach_path,
                   landing_history, history_file, waypoints, queue, prev_og, sample, ground_start, store_vars>>

\* the waypoints of the flight plan that is imported: two waypoints 0.84 nm
\* apart on the meridian, no pause requested
FlightPlan ==
    <<[id |-> 1, lat |-> 0, lon |-> 0, pause |-> FALSE],
      [id |-> 2, lat |-> 14, lon |-> 0, pause |-> FALSE]>>

\* import_pln with a file that parses: self.waypoints is rebuilt. While there
\* was no waypoint the time since last_check_time was not tracked, so each
\* running thread may be anywhere between two of its checks.
import_pln ==
    /\ app = "running"
    /\ waypoints' = FlightPlan
    /\ LET untracked == {t \in ThreadIds : threads[t].pc = "loop" /\ Len(waypoints) = 0}
       IN  \E now \in [untracked -> 0..(CheckPeriod + 1)] :
               threads' = [t \in ThreadIds |->
                              IF t \in untracked
                              THEN [threads[t] EXCEPT !.elapsed = now[t], !.since_check = now[t]]
                              ELSE threads[t]]
    /\ emitted' = <<>>
    /\ UNCHANGED <<app, monitoring, sessions, landing_data, approach_path, landing_history,
                   history_file, queue, prev_og, sample, ground_start, store_vars>>

\* toggle_pause_waypoint on the selected waypoint
toggle_pause_waypoint ==
    /\ app = "running"
    /\ \E i \in 1..Len(waypoints), state \in BOOLEAN :
        waypoints' = [waypoints EXCEPT ![i].pause = state]
    /\ emitted' = <<>>
    /\ UNCHANGED <<app, monitoring, threads, sessions, landing_data, approach_path,
                   landing_history, history_file, queue, prev_og, sample, ground_start, store_vars>>

(* ------------------------ monitor_flight: a tick ---------------------- *)

\* a take-off test that forgets was_airborne: every reading in the air is a take-off
takeoff_cond_every_air_reading(s, was_airborne) == s.on_ground = 0

\* the take-off test without the reading: any first tick counts as a take-off
takeoff_cond_any_reading(s, was_airborne) == ~was_airborne

\* if on_ground == 0 and not was_airborne
takeoff_cond(s, was_airborne) == s.on_ground = 0 /\ ~was_airborne

\* an approach test that leaves the on-ground reading out
approach_cond_any_ground(s, was_airborne) ==
    was_airborne /\ s.alt < ApproachAlt /\ s.vs < ApproachVs

\* an approach test that leaves the vertical speed out
approach_cond_any_vs(s, was_airborne) ==
    was_airborne /\ s.alt < ApproachAlt /\ s.on_ground = 0

\* if was_airborne and alt < 3000 and vs < -100 and not on_ground
approach_cond(s, was_airborne) ==
    was_airborne /\ s.alt < ApproachAlt /\ s.vs < ApproachVs /\ s.on_ground = 0

\* the landing test without the latch
landing_cond_unlatched(s, was_airborne, latch) == s.on_ground = 1 /\ was_airborne

\* if on_ground == 1 and was_airborne and not self.landing_data['on_ground']
landing_cond(s, was_airborne, latch) == s.on_ground = 1 /\ was_airborne /\ ~latch

\* a sum that takes the net altitude change of the path for the sum of its steps
total_vs_net(path) ==
    IF Len(path) < 2 THEN 0 ELSE Abs(path[Len(path)].alt - path[1].alt)

\* sum([abs(p[2] - self.approach_path[i-1][2]) for i, p in enumerate(...) if i > 0])
RECURSIVE total_vs(_)
total_vs(path) ==
    IF Len(path) < 2 THEN 0
    ELSE Abs(path[2].alt - path[1].alt) + total_vs(Tail(path))

\* The assignments to self.landing_data at a touchdown: the touchdown values,
\* the latch, and the approach statistics when the path holds two points or
\* more (avg_vs = total_vs / (len - 1), kept as a fraction).
touchdown_data(data, s, path) ==
    [data EXCEPT
        !.touchdown_fpm = <<s.vs>>,
        !.touchdown_g = <<s.g_force>>,
        !.touchdown_lat = <<s.lat>>,
        !.touchdown_lon = <<s.lon>>,
        !.on_ground = TRUE,
        !.approach_distance =
            IF Len(path) > 1
            THEN <<calculate_distance(path[1].lat, path[1].lon, s.lat, s.lon)>>
            ELSE @,
        !.avg_descent =
            IF Len(path) > 1
            THEN <<[num |-> total_vs(path), den |-> Len(path) - 1]>>
            ELSE @]

\* a proximity loop that clears the pause flag before it sends the command
RECURSIVE check_waypoints_clear_first(_, _, _, _, _)
check_waypoints_clear_first(wps, i, lat, lon, fail_at) ==
    IF i > Len(wps) THEN [wps |-> wps, events |-> <<>>, raised |-> FALSE]
    ELSE IF wps[i].pause /\ calculate_distance(lat, lon, wps[i].lat, wps[i].lon) < PauseRadius
    THEN IF i = fail_at
         THEN [wps |-> [wps EXCEPT ![i].pause = FALSE], events |-> <<>>, raised |-> TRUE]
         ELSE LET rest == check_waypoints_clear_first([wps EXCEPT ![i].pause = FALSE], i + 1, lat, lon, fail_at)
              IN [rest EXCEPT !.events = <<EventWith("pause_command", i), EventWith("waypoint_log", i),
                                           EventWith("waypoint", i)>> \o @]
    ELSE check_waypoints_clear_first(wps, i + 1, lat, lon, fail_at)

\* a proximity loop that triggers on the distance alone, whatever the pause flag
RECURSIVE check_waypoints_any_flag(_, _, _, _, _)
check_waypoints_any_flag(wps, i, lat, lon, fail_at) ==
    IF i > Len(wps) THEN [wps |-> wps, events |-> <<>>, raised |-> FALSE]
    ELSE IF calculate_distance(lat, lon, wps[i].lat, wps[i].lon) < PauseRadius
    THEN IF i = fail_at
         THEN [wps |-> wps, events |-> <<>>, raised |-> TRUE]
         ELSE LET rest == check_waypoints_any_flag([wps EXCEPT ![i].pause = FALSE], i + 1, lat, lon, fail_at)
              IN [rest EXCEPT !.events = <<EventWith("pause_command", i), EventWith("waypoint_log", i),
                                           EventWith("waypoint", i)>> \o @]
    ELSE check_waypoints_any_flag(wps, i + 1, lat, lon, fail_at)

\* a proximity loop that leaves the pause flag of a triggered waypoint set
RECURSIVE check_waypoints_keep_flag(_, _, _, _, _)
check_waypoints_keep_flag(wps, i, lat, lon, fail_at) ==
    IF i > Len(wps) THEN [wps |-> wps, events |-> <<>>, raised |-> FALSE]
    ELSE IF wps[i].pause /\ calculate_distance(lat, lon, wps[i].lat, wps[i].lon) < PauseRadius
    THEN IF i = fail_at
         THEN [wps |-> wps, events |-> <<>>, raised |-> TRUE]
         ELSE LET rest == check_waypoints_keep_flag(wps, i + 1, lat, lon, fail_at)
              IN [rest EXCEPT !.events = <<EventWith("pause_command", i), EventWith("waypoint_log", i),
                                           EventWith("waypoint", i)>> \o @]
    ELSE check_waypoints_keep_flag(wps, i + 1, lat, lon, fail_at)

\* The loop over self.waypoints of one proximity check from waypoint i on;
\* fail_at is the waypoint whose ae.event("PAUSE_SET", 1) raises (0: none).
RECURSIVE check_waypoints(_, _, _, _, _)
check_waypoints(wps, i, lat, lon, fail_at) ==
    IF i > Len(wps) THEN [wps |-> wps, events |-> <<>>, raised |-> FALSE]
    ELSE IF wps[i].pause /\ calculate_distance(lat, lon, wps[i].lat, wps[i].lon) < PauseRadius
    THEN IF i = fail_at
         THEN [wps |-> wps, events |-> <<>>, raised |-> TRUE]
         ELSE LET rest == check_waypoints([wps EXCEPT ![i].pause = FALSE], i + 1, lat, lon, fail_at)
              IN [rest EXCEPT !.events = <<EventWith("pause_command", i), EventWith("waypoint_log", i),
                                           EventWith("waypoint", i)>> \o @]
    ELSE check_waypoints(wps, i + 1, lat, lon, fail_at)

\* a proximity check that is due on every tick
proximity_due_every_tick(elapsed) == TRUE

\* if current_time - last_check_time > 2
proximity_due(elapsed) == elapsed > CheckPeriod

\* The time since last_check_time after a sleep, as far as the proximity check
\* tells it apart: all times above 2 s are alike, and with no waypoint to
\* examine the check does nothing whenever it runs, so the time is not tracked.
Later(wps, elapsed, sleep) ==
    IF Len(wps) = 0 THEN 0 ELSE Min(elapsed + sleep, CheckPeriod + 1)

\* One iteration of "while self.monitoring" in which every aq.get returned:
\* sample s, the history write ending as outcome, ae.event raising at
\* waypoint fail_at, and the iteration taking delay longer than its sleep.
TickSample(t, s, outcome, fail_at, delay) ==
    LET th == threads[t]
        point == [lat |-> s.lat, lon |-> s.lon, alt |-> s.alt]
        \* check for takeoff
        takeoff == takeoff_cond(s, th.was_airborne)
        was_airborne == th.was_airborne \/ takeoff
        data1 == IF takeoff THEN [landing_data EXCEPT !.on_ground = FALSE] ELSE landing_data
        ev1 == <<EventWith("position", point)>> \o (IF takeoff THEN <<Event("airborne")>> ELSE <<>>)
        \* record approach
        approach == approach_cond(s, was_airborne)
        recording1 == th.recording_approach \/ approach
        ev2 == ev1 \o (IF approach /\ ~th.recording_approach THEN <<Event("recording")>> ELSE <<>>)
                   \o (IF approach THEN <<EventWith("approach", point)>> ELSE <<>>)
        \* check for landing
        landing == landing_cond(s, was_airborne, data1.on_ground)
        data2 == IF landing THEN touchdown_data(data1, s, approach_path) ELSE data1
        record_raised == landing /\ insert_raises(landing_history)
        recorded == landing /\ ~record_raised
        saved == IF recorded
                 THEN save_landing_to_history(landing_history, history_file, history_entry(data2), outcome)
                 ELSE [history |-> landing_history, file |-> history_file]
        ev3 == ev2 \o (IF recorded
                       THEN (IF outcome = "ok" THEN <<>> ELSE <<Event("save_failed")>>)
                            \o <<EventWith("touchdown", data2), Event("landing_log")>>
                       ELSE <<>>)
        recording2 == IF recorded THEN FALSE ELSE recording1
        \* check waypoint proximity
        checking == ~record_raised /\ proximity_due(th.elapsed)
        checked == IF checking
                   THEN check_waypoints(waypoints, 1, s.lat, s.lon, fail_at)
                   ELSE [wps |-> waypoints, events |-> <<>>, raised |-> FALSE]
        raised == record_raised \/ checked.raised
        elapsed2 == IF checking /\ ~checked.raised THEN 0 ELSE th.elapsed
        since2 == IF checking THEN 0 ELSE th.since_check
        gap2 == IF ~checking THEN th.least_gap
                ELSE IF th.least_gap = <<>> THEN <<th.since_check>>
                ELSE <<Min(th.least_gap[1], th.since_check)>>
        slept == (IF raised THEN ErrorSleep ELSE TickSleep) + delay
    IN  /\ approach => Len(approach_path) + Len(queue) < MaxPath
        /\ ~recorded => outcome = "ok"
        /\ ~checking => fail_at = 0
        /\ threads' = [threads EXCEPT ![t] =
               [pc |-> "loop", was_airborne |-> was_airborne, recording_approach |-> recording2,
                elapsed |-> Later(checked.wps, elapsed2, slept),
                since_check |-> Later(checked.wps, since2, slept),
                least_gap |-> gap2]]
        /\ landing_data' = data2
        /\ queue' = IF approach THEN Append(queue, point) ELSE queue
        /\ landing_history' = saved.history
        /\ history_file' = saved.file
        /\ waypoints' = checked.wps
        /\ emitted' = ev3 \o checked.events \o (IF raised THEN <<Event("error")>> ELSE <<>>)
        /\ prev_og' = s.on_ground
        /\ sample' = <<s>>
        /\ ground_start' = (ground_start /\ s.on_ground # 0)
        /\ UNCHANGED <<app, monitoring, sessions, approach_path, store_vars>>

\* an iteration of the loop of monitor_flight that reads a sample of the set S
TickIn(t, S) ==
    /\ app = "running"
    /\ threads[t].pc = "loop"
    /\ monitoring
    /\ \E s \in S, outcome \in WriteOutcomes, fail_at \in 0..Len(waypoints), delay \in 0..1 :
        TickSample(t, s, outcome, fail_at, delay)

Tick(t) == TickIn(t, FlightSamples)

\* a read failure that makes the thread forget that it was airborne
TickReadErrorForgetting(t) ==
    /\ app = "running"
    /\ threads[t].pc = "loop"
    /\ monitoring
    /\ \E delay \in 0..1 :
        threads' = [threads EXCEPT ![t].elapsed = Later(waypoints, @, ErrorSleep + delay),
                                   ![t].since_check = Later(waypoints, @, ErrorSleep + delay),
                                   ![t].was_airborne = FALSE]
    /\ emitted' = <<Event("error")>>
    /\ UNCHANGED <<app, monitoring, sessions, landing_data, approach_path, landing_history,
                   history_file, waypoints, queue, prev_og, sample, ground_start, store_vars>>

\* a read failure that ends the loop of the thread
TickReadErrorEnding(t) ==
    /\ app = "running"
    /\ threads[t].pc = "loop"
    /\ monitoring
    /\ threads' = [threads EXCEPT ![t] = EndedThread]
    /\ emitted' = <<Event("error")>>
    /\ UNCHANGED <<app, monitoring, sessions, landing_data, approach_path, landing_history,
                   history_file, waypoints, queue, prev_og, sample, ground_start, store_vars>>

\* an iteration in which an aq.get raises: the except branch logs and sleeps
TickReadError(t) ==
    /\ app = "running"
    /\ threads[t].pc = "loop"
    /\ monitoring
    /\ \E delay \in 0..1 :
        threads' = [threads EXCEPT ![t].elapsed = Later(waypoints, @, ErrorSleep + delay),
                                   ![t].since_check = Later(waypoints, @, ErrorSleep + delay)]
    /\ emitted' = <<Event("error")>>
    /\ UNCHANGED <<app, monitoring, sessions, landing_data, approach_path, landing_history,
                   history_file, waypoints, queue, prev_og, sample, ground_start, store_vars>>

\* "while self.monitoring" finds the flag false: the thread ends
LoopExit(t) ==
    /\ app = "running"
    /\ threads[t].pc = "loop"
    /\ ~monitoring
    /\ threads' = [threads EXCEPT ![t] = EndedThread]
    /\ emitted' = <<>>
    /\ UNCHANGED <<app, monitoring, sessions, landing_data, approach_path, landing_history,
                   history_file, waypoints, queue, prev_og, sample, ground_start, store_vars>>

Next ==
    \/ StartMonitoring
    \/ StopMonitoring
    \/ add_approach_point
    \/ reset_landing_data
    \/ clear_history_yes
    \/ clear_history_no
    \/ \E t \in ThreadIds : Tick(t)
    \/ \E t \in ThreadIds : TickReadError(t)
    \/ \E t \in ThreadIds : LoopExit(t)

Spec == Init /\ [][Next]_vars

\* One monitoring session: the history file absent at the start, monitoring
\* started and never stopped, so that a single polling thread runs.
InitSession == Init /\ history_file = AbsentFile

NextSession ==
    \/ StartMonitoring
    \/ add_approach_point
    \/ \E t \in ThreadIds : Tick(t)
    \/ \E t \in ThreadIds : TickReadError(t)

SpecSession == InitSession /\ [][NextSession]_vars

(* --------------------------- the approach ----------------------------- *)

\* Samples on both sides of the two thresholds of the approach test: 2999 and
\* 3000 ft, -101 and -100 fpm, in the air and on the ground.
ApproachSamples == SamplesOf({0}, {2999, 3000}, {-101, -100}, {12})

TickApproach(t) == TickIn(t, ApproachSamples)

\* One monitoring session around the thresholds of the approach test.
NextApproach ==
    \/ StartMonitoring
    \/ add_approach_point
    \/ \E t \in ThreadIds : TickApproach(t)
    \/ \E t \in ThreadIds : TickReadError(t)

SpecApproach == InitSession /\ [][NextApproach]_vars

(* ---------------------- the approach statistics ----------------------- *)

\* approach points: over the touchdown place or 0.42 nm from it, at three altitudes
PathPoints == [lat : {0, 7}, lon : {0}, alt : {1000, 1500, 2000}]

\* the approach paths of up to MaxSummaryPath points
Paths == UNION {[1..n -> PathPoints] : n \in 0..MaxSummaryPath}

\* the samples of a touchdown
TouchdownSamples == {s \in SamplesOf({0, 7}, {0}, {-200}, {12}) : s.on_ground = 1}

\* The assignments of the landing branch to self.landing_data, made on their
\* own for an approach path and a sample, and the landing_signal that carries them.
SummarizeCall ==
    /\ app = "running"
    /\ \E path \in Paths, s \in TouchdownSamples :
        /\ approach_path' = path
        /\ sample' = <<s>>
        /\ landing_data' = touchdown_data(InitialLandingData, s, path)
    /\ emitted' = <<EventWith("touchdown", landing_data')>>
    /\ UNCHANGED <<app, monitoring, threads, sessions, landing_history, history_file, waypoints,
                   queue, prev_og, ground_start, store_vars>>

SpecSummary == InitSession /\ [][SummarizeCall]_vars

\* One monitoring session of a flight over waypoint 1 of an imported plan.
NextFlightPlan ==
    \/ StartMonitoring
    \/ add_approach_point
    \/ import_pln
    \/ toggle_pause_waypoint
    \/ \E t \in ThreadIds : Tick(t)
    \/ \E t \in ThreadIds : TickReadError(t)

SpecFlightPlan == InitSession /\ [][NextFlightPlan]_vars

(* ----------------------- the pure functions --------------------------- *)

\* touchdown rates on both sides of every breakpoint, with both signs
RatingFpm ==
    {-600, -599, -400, -399, -350, -300, -299, -200, -199, -100, -99, -50, 0,
     50, 99, 100, 199, 200, 299, 300, 350, 399, 400, 599, 600}

\* g-forces in tenths of g on both sides of every breakpoint
RatingG == {10, 12, 13, 14, 15, 16, 17, 18, 19, 20, 24, 25, 30}

\* One call of get_landing_rating, as update_landing_display and
\* save_landing_to_history make it: the readings and the rating returned.
RateCall ==
    /\ app = "running"
    /\ \E fpm \in RatingFpm, g \in RatingG :
        /\ sample' = <<[lat |-> 0, lon |-> 0, alt |-> 0, vs |-> fpm, on_ground |-> 1, g_force |-> g]>>
        /\ emitted' = <<EventWith("rating", get_landing_rating(fpm, g))>>
    /\ UNCHANGED <<app, monitoring, threads, sessions, landing_data, approach_path, landing_history,
                   history_file, waypoints, queue, prev_og, ground_start, store_vars>>

SpecRating == InitSession /\ [][RateCall]_vars

\* coordinates on a grid of 60 degrees
GridPoints == [lat : {-60, 0, 60}, lon : {-120, -60, 0, 60, 120, 180}]

\* calculate_distance called for a pair of points in both orders, and for the
\* first point with itself
DistanceCall ==
    /\ app = "running"
    /\ \E A \in GridPoints, B \in GridPoints :
        emitted' = <<EventWith("distance",
                        [from |-> A, to |-> B,
                         there |-> haversine(A.lat, A.lon, B.lat, B.lon),
                         back |-> haversine(B.lat, B.lon, A.lat, A.lon),
                         self |-> haversine(A.lat, A.lon, A.lat, A.lon)])>>
    /\ UNCHANGED <<app, monitoring, threads, sessions, landing_data, approach_path, landing_history,
                   history_file, waypoints, queue, prev_og, sample, ground_start, store_vars>>

SpecDistance == InitSession /\ [][DistanceCall]_vars

(* ------------------------ the order of events ------------------------ *)

\* Samples of a descent over waypoint 1 of the plan through 2000 and 1500 ft,
\* in the air and at the touchdown.
EventSamples == SamplesOf({0}, {1500, 2000}, {-500}, {12})

TickEvents(t) == TickIn(t, EventSamples)

\* One monitoring session of a descent and landing along an imported plan.
NextEvents ==
    \/ StartMonitoring
    \/ add_approach_point
    \/ import_pln
    \/ toggle_pause_waypoint
    \/ \E t \in ThreadIds : TickEvents(t)
    \/ \E t \in ThreadIds : TickReadError(t)

SpecEvents == InitSession /\ [][NextEvents]_vars

(* ------------------------ waypoint proximity -------------------------- *)

\* Samples of a cruise along the meridian of the flight plan: over waypoint 1
\* (0.84 nm from waypoint 2), 0.42 nm from both, and 1.8 nm past waypoint 1.
CruiseSamples == {s \in SamplesOf({0, 7, 30}, {5000}, {0}, {10}) : s.on_ground = 0}

TickCruise(t) == TickIn(t, CruiseSamples)

\* A flight along an imported plan, with pauses requested on its waypoints.
NextWaypoints ==
    \/ StartMonitoring
    \/ StopMonitoring
    \/ import_pln
    \/ toggle_pause_waypoint
    \/ \E t \in ThreadIds : TickCruise(t)
    \/ \E t \in ThreadIds : TickReadError(t)
    \/ \E t \in ThreadIds : LoopExit(t)

SpecWaypoints == InitSession /\ [][NextWaypoints]_vars

\* The same flight in one monitoring session: monitoring is started and never
\* stopped, so that a single polling thread runs.
NextCruise ==
    \/ StartMonitoring
    \/ import_pln
    \/ toggle_pause_waypoint
    \/ \E t \in ThreadIds : TickCruise(t)
    \/ \E t \in ThreadIds : TickReadError(t)

SpecCruise == InitSession /\ [][NextCruise]_vars

(* ------------------ the polling loop and its errors ------------------- *)

\* Samples of a flight that takes off and lands, with no approach recorded.
LoopSamples == {s \in FlightSamples : s.vs = -50}

TickLoop(t) == TickIn(t, LoopSamples)

\* what the polling thread t does next: an iteration of its loop, or its exit
ThreadStep(t) == TickLoop(t) \/ TickReadError(t) \/ LoopExit(t)

\* The program started without a history file, or with one that holds the
\* object {} (on which the insert of a record raises).
InitLoop == InitWith({AbsentFile, [kind |-> "object", items |-> <<>>]})

\* the first click on "Start Monitoring"
StartFirst == sessions = 0 /\ StartMonitoring

\* One monitoring session, started once and stopped at any time.
NextLoop ==
    \/ StartFirst
    \/ StopMonitoring
    \/ import_pln
    \/ toggle_pause_waypoint
    \/ \E t \in ThreadIds : TickLoop(t)
    \/ \E t \in ThreadIds : TickReadError(t)
    \/ \E t \in ThreadIds : LoopExit(t)

\* Every started thread goes on running: its sleeps end and its reads return
\* or raise (a daemon thread of the interpreter, lines 987-988).
SpecLoop == InitLoop /\ [][NextLoop]_vars /\ \A t \in ThreadIds : WF_vars(ThreadStep(t))

(* -------------------- one run of the polling task ------------------- *)

\* One run of monitor_flight: monitoring is started once, the flight data may
\* be reset and monitoring stopped at any time, and the thread leaves its loop
\* after the stop.
NextRun ==
    \/ StartFirst
    \/ StopMonitoring
    \/ add_approach_point
    \/ reset_landing_data
    \/ \E t \in ThreadIds : Tick(t)
    \/ \E t \in ThreadIds : TickReadError(t)
    \/ \E t \in ThreadIds : LoopExit(t)

SpecRun == InitSession /\ [][NextRun]_vars

(* ------------------- the history store on its own --------------------- *)

\* the landing data of the n-th touchdown made here: it touches down at -n fpm
LandingNo(n) ==
    touchdown_data(InitialLandingData,
                   [lat |-> 0, lon |-> 0, alt |-> 0, vs |-> -n, on_ground |-> 1, g_force |-> 12],
                   <<>>)

\* One call of save_landing_to_history on a list, run without interruption.
RecordCall ==
    /\ app = "running"
    /\ calls < MaxRecords
    /\ landing_history.list
    /\ \E outcome \in WriteOutcomes :
        LET saved == save_landing_to_history(landing_history, history_file,
                                             history_entry(LandingNo(calls + 1)), outcome)
        IN  /\ landing_history' = saved.history
            /\ history_file' = saved.file
            /\ failed_write' = (failed_write \/ outcome # "ok")
            /\ emitted' = IF outcome = "ok" THEN <<>> ELSE <<Event("save_failed")>>
    /\ calls' = calls + 1
    /\ returned' = TRUE
    /\ UNCHANGED <<app, monitoring, threads, sessions, landing_data, approach_path, waypoints,
                   queue, recorder, clearer, prev_og, sample, ground_start, loaded>>

\* Calls of save_landing_to_history in a row, from an empty history.
InitRecord == InitWith({AbsentFile})

SpecRecord == InitRecord /\ [][RecordCall]_vars

\* The file after a writer that opened it with 'w' (its position 0) writes
\* the text of snap and closes: its text replaces what another writer put
\* there since, unless that is longer, and then the rest of it stays behind.
written(file, snap) ==
    IF Len(snap.items) >= Len(file.items) THEN json_dump(snap) ELSE GarbageFile

\* save_landing_to_history in the polling thread, statement by statement:
\* insert(0, history_entry), which raises on a value that is no list
RecordInsert ==
    /\ app = "running"
    /\ recorder.pc = "idle"
    /\ calls < MaxStoreCalls
    /\ calls' = calls + 1
    /\ IF insert_raises(landing_history)
       THEN /\ emitted' = <<Event("error")>>
            /\ UNCHANGED <<landing_history, recorder>>
       ELSE /\ landing_history' = history_insert(landing_history, history_entry(LandingNo(calls + 1)))
            /\ recorder' = [recorder EXCEPT !.pc = "inserted"]
            /\ emitted' = <<>>
    /\ UNCHANGED <<app, monitoring, threads, sessions, landing_data, approach_path, history_file,
                   waypoints, queue, clearer, prev_og, sample, ground_start, loaded, failed_write, returned>>

\* if len(self.landing_history) > 100: self.landing_history = self.landing_history[:100]
RecordTruncate ==
    /\ recorder.pc = "inserted"
    /\ landing_history' = history_truncate(landing_history)
    /\ recorder' = [recorder EXCEPT !.pc = "truncated"]
    /\ emitted' = <<>>
    /\ UNCHANGED <<app, monitoring, threads, sessions, landing_data, approach_path, history_file,
                   waypoints, queue, clearer, calls, prev_og, sample, ground_start, loaded, failed_write,
                   returned>>

\* save_landing_history, open(history_file, 'w'): the file is emptied, or
\* open raises, which is logged and ends the call
SaveOpen(who, pc_from) ==
    /\ who.pc = pc_from
    /\ \E ok \in BOOLEAN :
        IF ok
        THEN /\ history_file' = GarbageFile
             /\ who' = [who EXCEPT !.pc = "opened"]
             /\ emitted' = <<>>
             /\ UNCHANGED <<failed_write, returned>>
        ELSE /\ who' = Idle
             /\ emitted' = <<Event("save_failed")>>
             /\ failed_write' = TRUE
             /\ returned' = TRUE
             /\ UNCHANGED history_file

\* save_landing_history, the argument self.landing_history of json.dump is read
SaveCapture(who) ==
    /\ who.pc = "opened"
    /\ who' = [pc |-> "captured", snap |-> landing_history]
    /\ emitted' = <<>>

\* save_landing_history, the text is written and the file closed, or the
\* write raises, which is logged; the call returns
SaveWrite(who) ==
    /\ who.pc = "captured"
    /\ who' = Idle
    /\ returned' = TRUE
    /\ \E ok \in BOOLEAN :
        IF ok
        THEN /\ history_file' = written(history_file, who.snap)
             /\ emitted' = <<>>
             /\ UNCHANGED failed_write
        ELSE /\ history_file' = GarbageFile
             /\ emitted' = <<Event("save_failed")>>
             /\ failed_write' = TRUE

RecordOpen ==
    /\ SaveOpen(recorder, "truncated")
    /\ UNCHANGED <<app, monitoring, threads, sessions, landing_data, approach_path,
                   landing_history, waypoints, queue, clearer, calls, prev_og, sample, ground_start, loaded>>

RecordCapture ==
    /\ SaveCapture(recorder)
    /\ UNCHANGED <<app, monitoring, threads, sessions, landing_data, approach_path,
                   landing_history, history_file, waypoints, queue, clearer, calls, prev_og, sample,
                   ground_start, loaded, failed_write, returned>>

RecordWrite ==
    /\ SaveWrite(recorder)
    /\ UNCHANGED <<app, monitoring, threads, sessions, landing_data, approach_path,
                   landing_history, waypoints, queue, clearer, calls, prev_og, sample, ground_start, loaded>>

\* clear_history in the GUI thread after the reply Yes, statement by statement:
\* self.landing_history = []
ClearAssign ==
    /\ app = "running"
    /\ clearer.pc = "idle"
    /\ landing_history' = EmptyHistory
    /\ clearer' = [clearer EXCEPT !.pc = "assigned"]
    /\ emitted' = <<>>
    /\ UNCHANGED <<app, monitoring, threads, sessions, landing_data, approach_path, history_file,
                   waypoints, queue, recorder, calls, prev_og, sample, ground_start, loaded, failed_write,
                   returned>>

ClearOpen ==
    /\ SaveOpen(clearer, "assigned")
    /\ UNCHANGED <<app, monitoring, threads, sessions, landing_data, approach_path,
                   landing_history, waypoints, queue, recorder, calls, prev_og, sample, ground_start, loaded>>

ClearCapture ==
    /\ SaveCapture(clearer)
    /\ UNCHANGED <<app, monitoring, threads, sessions, landing_data, approach_path,
                   landing_history, history_file, waypoints, queue, recorder, calls, prev_og, sample,
                   ground_start, loaded, failed_write, returned>>

ClearWrite ==
    /\ SaveWrite(clearer)
    /\ UNCHANGED <<app, monitoring, threads, sessions, landing_data, approach_path,
                   landing_history, waypoints, queue, recorder, calls, prev_og, sample, ground_start, loaded>>

\* The history store under a polling thread that records and a GUI thread that
\* clears, started from any content of the durable file.
InitStore == InitWith(FileContents)

NextStore ==
    \/ RecordInsert
    \/ RecordTruncate
    \/ RecordOpen
    \/ RecordCapture
    \/ RecordWrite
    \/ ClearAssign
    \/ ClearOpen
    \/ ClearCapture
    \/ ClearWrite

SpecStore == InitStore /\ [][NextStore]_vars

(* ------------------------------ claims -------------------------------- *)

\* the number of signals of one type the step emits
CountEmittedNext(type) == Cardinality({i \in 1..Len(emitted') : emitted'[i].type = type})

\* the step is a tick that detects a touchdown: it sets the latch and the touchdown values
TouchdownStep ==
    /\ ~landing_data.on_ground
    /\ landing_data'.on_ground
    /\ landing_data'.touchdown_fpm # <<>>

\* C1: within a session, every tick that reads on-ground after a tick that
\* read not-on-ground emits exactly one touchdown event (the second landing of
\* the sample sequence 0,0,1,1,0,1 as well as the first).
C1_TouchdownOnEveryGroundContact ==
    [][(prev_og = 0 /\ prev_og' = 1) => CountEmittedNext("touchdown") = 1]_vars

\* C2: a step emits at most one touchdown event, emits it only with the latch
\* landing_data['on_ground'] false before the step and true after it, and the
\* latch is released only by a tick that reads on_ground = 0 (and reports the
\* aircraft airborne): while the readings stay on-ground, no second touchdown.
C2_TouchdownLatched ==
    [][/\ CountEmittedNext("touchdown") > 0 =>
            /\ CountEmittedNext("touchdown") = 1
            /\ ~landing_data.on_ground
            /\ landing_data'.on_ground
            /\ prev_og' = 1
       /\ (landing_data.on_ground /\ ~landing_data'.on_ground) =>
            /\ prev_og' = 0
            /\ CountEmittedNext("airborne") = 1
            /\ CountEmittedNext("touchdown") = 0]_vars

\* C2, witness: a touchdown event was emitted and the latch is set
C2_Witness ==
    /\ CountEmitted("touchdown") = 1
    /\ landing_data.on_ground
    /\ prev_og = 1

\* C3: in a session that began with the latch set, no step emits a touchdown
\* event as long as no tick of the session has read on_ground = 0.
C3_NoTouchdownBeforeAirborne == ground_start => CountEmitted("touchdown") = 0

\* C3, witness: such a session has run a tick that read on-ground, with
\* nothing emitted
C3_Witness ==
    /\ ground_start
    /\ prev_og = 1
    /\ EmittedTypes = {"position"}
    /\ \E t \in ThreadIds : threads[t].pc = "loop" /\ ~threads[t].was_airborne

\* C4: every tick that reads not-on-ground after a tick of the session that
\* read on-ground emits exactly one airborne event (a second take-off after a
\* landing as well as the first).
C4_AirborneOnEveryTakeoff ==
    [][(prev_og = 1 /\ prev_og' = 0) => CountEmittedNext("airborne") = 1]_vars

\* C5: every tick that sets the touchdown latch inserts exactly one record, made
\* of the touchdown values, at index 0 of the history and emits exactly one
\* touchdown event carrying these values; no other step makes the history longer.
C5_RecordPerTouchdown ==
    [][/\ TouchdownStep =>
            /\ landing_history'.list
            /\ landing_history'.items =
                   SubSeq(<<history_entry(landing_data')>> \o landing_history.items,
                          1, Len(landing_history'.items))
            /\ Len(landing_history'.items) = Min(Len(landing_history.items) + 1, HistoryCap)
            /\ CountEmittedNext("touchdown") = 1
            /\ \E i \in 1..Len(emitted') :
                   emitted'[i].type = "touchdown" /\ emitted'[i].data = <<landing_data'>>
       /\ Len(landing_history'.items) > Len(landing_history.items) => TouchdownStep]_vars

\* C6: the in-memory landing history never holds more than 100 records,
\* whatever the history file held when it was loaded and at every point of a
\* record operation, between its insert and its truncation included.
C6_HistoryWithinCap == Len(landing_history.items) <= HistoryCap

\* C7: after n record operations in a row from an empty history, the history
\* holds the min(n, 100) most recent records, newest first; the 101st
\* operation leaves 100 records and no longer the first one recorded.
C7_NewestFirstWithinCap ==
    landing_history.items =
        [i \in 1..Min(calls, HistoryCap) |-> history_entry(LandingNo(calls - i + 1))]

\* C7, witness: 101 records were made, 100 are held, the first one is gone
C7_Witness ==
    /\ calls = HistoryCap + 1
    /\ Len(landing_history.items) = HistoryCap
    /\ \A i \in 1..Len(landing_history.items) :
           landing_history.items[i] # history_entry(LandingNo(1))

\* C8: whenever no record or clear operation is under way, one has returned
\* and no write of the file has failed, the history file holds exactly the
\* in-memory history, for every interleaving of record and clear operations.
C8_FileEqualsMemory ==
    (recorder.pc = "idle" /\ clearer.pc = "idle" /\ returned /\ ~failed_write)
        => history_file = json_dump(landing_history)

\* C10: the load of the history yields the empty history whenever the file is
\* absent or holds anything but a JSON array of landing records, and the
\* application runs on after it.
C10_LoadEmptyUnlessRecords ==
    (\/ loaded.file.kind # "array"
     \/ \E i \in 1..Len(loaded.file.items) : ~loaded.file.items[i].shaped)
        => (loaded.result = EmptyHistory /\ app = "running")

\* C9: when the write of the history file fails in the touchdown step, the
\* failure is logged and nothing else changes: the new record is at index 0 of
\* the history, the touchdown event is emitted, no exception reaches the loop,
\* and the thread is in its loop for the next tick.
C9_WriteFailureIsOnlyLogged ==
    [][(TouchdownStep /\ landing_history'.list /\ history_file' # json_dump(landing_history')) =>
            /\ CountEmittedNext("save_failed") = 1
            /\ landing_history'.items # <<>>
            /\ landing_history'.items[1] = history_entry(landing_data')
            /\ CountEmittedNext("touchdown") = 1
            /\ CountEmittedNext("error") = 0
            /\ monitoring'
            /\ \A t \in ThreadIds : threads[t].pc = "loop" => threads'[t].pc = "loop"]_vars

\* C9, witness: a touchdown was recorded and announced while the file write failed
C9_Witness ==
    /\ CountEmitted("save_failed") = 1
    /\ CountEmitted("touchdown") = 1
    /\ landing_history.items # <<>>
    /\ history_file # json_dump(landing_history)

\* C11, as stated: a confirmed clear leaves the in-memory history empty and the
\* durable file holding the empty sequence, whatever the history held before.
C11_ClearPersistsEmpty ==
    [][CountEmittedNext("cleared") = 1 =>
            /\ landing_history' = EmptyHistory
            /\ history_file' = json_dump(EmptyHistory)]_vars

\* C11, amended: a confirmed clear leaves the in-memory history empty; when its
\* write does not fail the durable file holds the empty sequence, and when it
\* fails the failure is logged and the file keeps its content or is left
\* truncated. A declined clear leaves the history and the file unchanged.
C11_ClearPersistsEmptyUnlessWriteFails ==
    [][/\ CountEmittedNext("cleared") = 1 =>
            /\ landing_history' = EmptyHistory
            /\ CountEmittedNext("save_failed") = 0 => history_file' = json_dump(EmptyHistory)
            /\ CountEmittedNext("save_failed") = 1 => history_file' \in {history_file, GarbageFile}
       /\ clear_history_no => UNCHANGED <<landing_history, history_file>>]_vars

\* C11, witness: a clear was confirmed after a landing had been recorded, and
\* memory and file hold the empty sequence
C11_Witness ==
    /\ CountEmitted("cleared") = 1
    /\ CountEmitted("save_failed") = 0
    /\ landing_data.touchdown_fpm # <<>>
    /\ landing_history = EmptyHistory
    /\ history_file = json_dump(EmptyHistory)

\* the number of signals of one type about waypoint i that the step emits
CountAbout(type, i) ==
    Cardinality({k \in 1..Len(emitted') : emitted'[k].type = type /\ emitted'[k].data = <<i>>})

\* the step is one of the control surface: no thread moved, nothing was emitted
ControlStep == threads' = threads /\ emitted' = <<>>

\* C12: the pause of a waypoint is one-shot. A step sends at most one pause
\* command and emits at most one waypoint-reached event for a waypoint, only
\* when its pause flag is set, and clears the flag in the same step; the flag
\* is set again only by the control surface, never by a tick. So between two
\* settings of the flag at most one command is sent, and a further tick at
\* the same position sends none.
C12_PauseOneShot ==
    [][\A i \in 1..Min(Len(waypoints), Len(waypoints')) :
            /\ CountAbout("pause_command", i) <= 1
            /\ CountAbout("waypoint", i) <= 1
            /\ (CountAbout("pause_command", i) = 1 \/ CountAbout("waypoint", i) = 1)
                    => (waypoints[i].pause /\ ~waypoints'[i].pause)
            /\ (~waypoints[i].pause /\ waypoints'[i].pause) => ControlStep]_vars

\* C12, witness: the pause of waypoint 1 was triggered and its flag is consumed,
\* while waypoint 2, out of reach, keeps its flag
C12_Witness ==
    /\ Len(waypoints) = 2
    /\ \E k \in 1..Len(emitted) : emitted[k].type = "pause_command" /\ emitted[k].data = <<1>>
    /\ \E k \in 1..Len(emitted) : emitted[k].type = "waypoint" /\ emitted[k].data = <<1>>
    /\ ~waypoints[1].pause
    /\ waypoints[2].pause

\* the step is a tick of the one polling thread in which the proximity check runs
CheckStep ==
    /\ CountEmittedNext("position") = 1
    /\ \E t \in ThreadIds : threads[t].pc = "loop" /\ proximity_due(threads[t].elapsed)

\* waypoint i is due at the position the tick emitted: pause set, nearer than 0.5 nm
Due(i) ==
    /\ waypoints[i].pause
    /\ \E k \in 1..Len(emitted') :
           /\ emitted'[k].type = "position"
           /\ calculate_distance(emitted'[k].data[1].lat, emitted'[k].data[1].lon,
                                 waypoints[i].lat, waypoints[i].lon) < PauseRadius

\* the step sends the pause command for waypoint i, clears its flag and emits waypoint-reached
Triggered(i) ==
    /\ CountAbout("pause_command", i) = 1
    /\ CountAbout("waypoint", i) = 1
    /\ ~waypoints'[i].pause

\* the step sends no command and emits no event for waypoint i and keeps its flag
Untouched(i) ==
    /\ CountAbout("pause_command", i) = 0
    /\ CountAbout("waypoint", i) = 0
    /\ waypoints'[i].pause = waypoints[i].pause

\* C13, as stated: on a tick whose proximity check runs, every waypoint with
\* its pause flag set and nearer than 0.5 nm gets its pause command, its flag
\* cleared and its waypoint-reached event, and every other waypoint keeps its
\* flag and causes no command.
C13_TriggerIffDue ==
    [][CheckStep =>
            \A i \in 1..Len(waypoints) : IF Due(i) THEN Triggered(i) ELSE Untouched(i)]_vars

\* C13, amended: as stated as long as no send of the pause command raises; the
\* waypoint whose send raises and every waypoint after it in the list are left
\* untouched on that tick, which logs the error.
C13_TriggerIffDueUnlessSendFails ==
    [][CheckStep =>
            \A i \in 1..Len(waypoints) :
                IF Due(i)
                THEN \/ Triggered(i)
                     \/ /\ CountEmittedNext("error") = 1
                        /\ \A j \in i..Len(waypoints) : Untouched(j)
                ELSE Untouched(i)]_vars

\* C13, witness: a check 0.42 nm from both waypoints triggered waypoint 1,
\* whose pause was set, and not waypoint 2, whose pause was not
C13_Witness ==
    /\ Len(waypoints) = 2
    /\ \E k \in 1..Len(emitted) : emitted[k].type = "position" /\ emitted[k].data[1].lat = 7
    /\ CountEmitted("pause_command") = 1
    /\ \E k \in 1..Len(emitted) : emitted[k].type = "waypoint" /\ emitted[k].data = <<1>>
    /\ CountEmitted("error") = 0
    /\ ~waypoints[1].pause
    /\ ~waypoints[2].pause

\* C14: the proximity check runs on a coarser cadence than the tick. For every
\* polling thread, two consecutive checks, and its start and its first check,
\* are at least 2 seconds apart; and a step sends a pause command or clears a
\* pause flag only if it is the tick of a thread whose last_check_time is more
\* than 2 seconds old, so the ticks in between examine no waypoint.
C14_CheckCadence ==
    /\ [](\A t \in ThreadIds :
            threads[t].least_gap # <<>> => threads[t].least_gap[1] >= CheckPeriod)
    /\ [][(\/ CountEmittedNext("pause_command") > 0
           \/ \E i \in 1..Min(Len(waypoints), Len(waypoints')) :
                  waypoints[i].pause /\ ~waypoints'[i].pause /\ ~ControlStep)
              => \E t \in ThreadIds :
                     threads[t].pc = "loop" /\ proximity_due(threads[t].elapsed)]_vars

\* C14, witness: a thread ran two proximity checks exactly 2 seconds apart (the
\* second one after the back-off sleep that followed a failed send)
C14_Witness ==
    \E t \in ThreadIds : threads[t].pc = "loop" /\ threads[t].least_gap = <<CheckPeriod>>

\* the step is a tick of monitor_flight whose reads succeeded
ReadStep == CountEmittedNext("position") = 1

\* was_airborne of the session's polling thread after the step
WasAirborneNext == \E t \in ThreadIds : threads'[t].pc = "loop" /\ threads'[t].was_airborne

\* the step emits one approach-point event, with the position of the sample it read
ApproachPointNext ==
    /\ CountEmittedNext("approach") = 1
    /\ \E k \in 1..Len(emitted') :
           /\ emitted'[k].type = "approach"
           /\ emitted'[k].data =
                  <<[lat |-> sample'[1].lat, lon |-> sample'[1].lon, alt |-> sample'[1].alt]>>

\* the sample the step read qualifies for the approach, as the claims word it
QualifiesNext ==
    /\ WasAirborneNext
    /\ sample'[1].alt < 3000
    /\ sample'[1].vs < -100
    /\ sample'[1].on_ground # 1

\* C15: a tick emits an approach-point event with its (lat, lon, alt) if and
\* only if was_airborne is true, the altitude is below 3000 ft, the vertical
\* speed is below -100 fpm and the aircraft is not on the ground: on every
\* such tick one event, on every other tick and every other step none.
C15_ApproachPointIffQualifying ==
    [][IF ReadStep /\ QualifiesNext
       THEN ApproachPointNext
       ELSE CountEmittedNext("approach") = 0]_vars

\* C15, witness: a second approach point in a row was emitted, on a tick that
\* was not the entry into the approach
C15_Witness ==
    /\ CountEmitted("approach") = 1
    /\ CountEmitted("recording") = 0
    /\ sample # <<>>
    /\ sample[1].alt = 2999
    /\ sample[1].vs = -101
    /\ Len(approach_path) + Len(queue) = 2

\* the latest tick of the session before the step read a qualifying sample
QualifiedBefore ==
    /\ sample # <<>>
    /\ \E t \in ThreadIds : threads[t].pc = "loop" /\ threads[t].was_airborne
    /\ sample[1].alt < 3000
    /\ sample[1].vs < -100
    /\ sample[1].on_ground # 1

\* C16: a tick emits the "recording started" notice if and only if it reads a
\* qualifying sample while the tick before it did not (the first entry into
\* the approach, and every re-entry after the condition was left); no other
\* step emits it.
C16_RecordingNoticeOnEveryEntry ==
    [][IF ReadStep /\ QualifiesNext /\ ~QualifiedBefore
       THEN CountEmittedNext("recording") = 1
       ELSE CountEmittedNext("recording") = 0]_vars

\* C17: the approach path holds only points of the current approach. It is
\* empty after the step that starts a session, after a tick that enters the
\* approach condition (the point of that tick is still to be delivered) and
\* after the tick of a touchdown, which has consumed it.
C17_PathOfCurrentApproach ==
    [][/\ (~monitoring /\ monitoring') => approach_path' = <<>>
       /\ (ReadStep /\ QualifiesNext /\ ~QualifiedBefore) => approach_path' = <<>>
       /\ TouchdownStep => approach_path' = <<>>]_vars

\* the sum of |altitude[i] - altitude[i-1]| over the points 2..n of a path
RECURSIVE AbsSteps(_, _)
AbsSteps(path, n) ==
    IF n < 2 THEN 0 ELSE AbsSteps(path, n - 1) + Abs(path[n].alt - path[n - 1].alt)

\* the altitudes of the approach path
PathAltitudes == [i \in 1..Len(approach_path) |-> approach_path[i].alt]

\* C18: at a touchdown with an approach path of two points or more, the
\* approach distance is the distance from the first point of the path to the
\* touchdown coordinates, and the average descent rate is the sum of
\* |altitude[i] - altitude[i-1]| over the consecutive points divided by their
\* number less one; for the altitudes 2000, 1500, 1000 it is 500.
C18_ApproachStatistics ==
    (sample # <<>> /\ Len(approach_path) >= 2) =>
        /\ landing_data.approach_distance =
               <<calculate_distance(approach_path[1].lat, approach_path[1].lon,
                                    sample[1].lat, sample[1].lon)>>
        /\ landing_data.avg_descent =
               <<[num |-> AbsSteps(approach_path, Len(approach_path)),
                  den |-> Len(approach_path) - 1]>>
        /\ PathAltitudes = <<2000, 1500, 1000>> =>
               landing_data.avg_descent[1].num = 500 * landing_data.avg_descent[1].den

\* C18, witness: the statistics of a path that descends 2000, 1500, 1000 ft
\* from 0.42 nm out
C18_Witness ==
    /\ PathAltitudes = <<2000, 1500, 1000>>
    /\ approach_path[1].lat = 7
    /\ sample = <<[lat |-> 0, lon |-> 0, alt |-> 0, vs |-> -200, on_ground |-> 1, g_force |-> 12]>>
    /\ landing_data.approach_distance = <<420>>
    /\ landing_data.avg_descent = <<[num |-> 1000, den |-> 2]>>

\* C19: a touchdown with an approach path of fewer than two points has no
\* approach statistics: the data of its touchdown event carry no approach
\* distance and no average descent rate, whatever an earlier landing computed.
C19_NoStatisticsBelowTwoPoints ==
    [][(TouchdownStep /\ Len(approach_path) < 2) =>
            \A k \in 1..Len(emitted') :
                emitted'[k].type = "touchdown" =>
                    /\ emitted'[k].data[1].approach_distance = <<>>
                    /\ emitted'[k].data[1].avg_descent = <<>>]_vars

\* the step is a tick whose telemetry reads raised: the error is logged and no
\* position was emitted
ReadFailureStep == CountEmittedNext("error") = 1 /\ CountEmittedNext("position") = 0

\* C20: a tick whose telemetry read fails logs the failure, sleeps the back-off
\* of 2 seconds, and leaves was_airborne, recording_approach, the touchdown
\* latch, the approach path, the pause flags of the waypoints and the history
\* as they were; it emits nothing but the log message.
C20_ReadFailureChangesNothing ==
    [][ReadFailureStep =>
            /\ emitted' = <<Event("error")>>
            /\ \A t \in ThreadIds :
                   /\ threads'[t].pc = threads[t].pc
                   /\ threads'[t].was_airborne = threads[t].was_airborne
                   /\ threads'[t].recording_approach = threads[t].recording_approach
                   /\ threads[t].pc = "loop" =>
                          \E d \in 0..1 :
                              threads'[t].elapsed =
                                  IF Len(waypoints) = 0 THEN 0
                                  ELSE Min(threads[t].elapsed + 4 + d, CheckPeriod + 1)
            /\ UNCHANGED <<landing_data, approach_path, queue, waypoints, landing_history,
                           history_file, monitoring>>]_vars

\* C20, witness: a read failed in the middle of an approach, with the latch
\* released, a point on the path and a pause requested
C20_Witness ==
    /\ emitted = <<Event("error")>>
    /\ ~landing_data.on_ground
    /\ approach_path # <<>>
    /\ \E i \in 1..Len(waypoints) : waypoints[i].pause
    /\ \E t \in ThreadIds :
           /\ threads[t].pc = "loop"
           /\ threads[t].was_airborne
           /\ threads[t].recording_approach
           /\ threads[t].elapsed = 4

\* C21: the polling loop never ends on an error. A tick that raised (a read, the
\* send of a pause command or the insert of a record) leaves every thread
\* where it was, in its loop; a thread leaves its loop only in a step that
\* finds the monitoring flag false; and a thread that stays in its loop with
\* the flag set for ever ticks again and again.
C21_LoopSurvivesErrors ==
    /\ [][\A t \in ThreadIds :
              /\ CountEmittedNext("error") > 0 => threads'[t].pc = threads[t].pc
              /\ (threads[t].pc = "loop" /\ threads'[t].pc # "loop") => ~monitoring]_vars
    /\ \A t \in ThreadIds :
           <>[](monitoring /\ threads[t].pc = "loop")
               => []<><<TickLoop(t) \/ TickReadError(t)>>_vars

\* C21, witness: the tick of a touchdown raised at the insert of its record (the
\* history is no list), and the thread is in its loop with monitoring on
C21_Witness ==
    /\ monitoring
    /\ CountEmitted("error") = 1
    /\ CountEmitted("position") = 1
    /\ landing_data.touchdown_fpm # <<>>
    /\ ~landing_history.list
    /\ \E t \in ThreadIds : threads[t].pc = "loop" /\ threads[t].was_airborne

\* the polling thread t has been told to stop: a later session was started,
\* which takes a stop request after the start of t
StopSignaledTo(t) == threads[t].pc = "loop" /\ t < sessions

\* C22: cancellation takes effect within one tick. A polling thread that has
\* been told to stop begins no further tick, whatever start and stop requests
\* follow the stop.
C22_StopWithinOneTick ==
    [][\A t \in ThreadIds : StopSignaledTo(t) => ~(Tick(t) \/ TickReadError(t))]_vars

\* the polling threads that are inside the loop of monitor_flight
PollingThreads == {t \in ThreadIds : threads[t].pc = "loop"}

\* C23: at every moment at most one polling thread is inside the detector loop,
\* for every sequence of start and stop requests.
C23_OnePollingThread == Cardinality(PollingThreads) <= 1

\* the step is an iteration of a polling thread: its reads succeeded or raised
PollingStep == ReadStep \/ ReadFailureStep

\* C24: single-writer discipline. While a polling thread is running, the landing
\* data with the touchdown latch, the approach path and the landing history
\* are written by the iterations of the polling thread only: no step of the
\* control surface (delivery of an approach point, reset of the landing data,
\* clear of the history, start of a session) changes them.
C24_SingleWriter ==
    [][(PollingThreads # {} /\ ~PollingStep) =>
            UNCHANGED <<landing_data, approach_path, landing_history>>]_vars

\* the last j of the records made so far, newest first
LastRecords(j) == [i \in 1..j |-> history_entry(LandingNo(calls - i + 1))]

\* What the history can be after the record and clear operations made so far,
\* run one after the other in some order: the records made since the last
\* clear, or with no clear all of them on top of what was loaded.
SerialHistories ==
    {[list |-> TRUE, items |-> LastRecords(j)] : j \in 0..calls}
        \cup {IF loaded.result.list /\ calls > 0
              THEN history_truncate([loaded.result EXCEPT !.items = LastRecords(calls) \o @])
              ELSE loaded.result}

\* C25: record and clear are serialized. Whenever no record or clear is under
\* way, one has returned and no write has failed, the in-memory history and
\* the durable file are what the operations leave when they run one after the
\* other in some order: the history is one of these results and the file
\* holds it.
C25_HistorySerialized ==
    (recorder.pc = "idle" /\ clearer.pc = "idle" /\ returned /\ ~failed_write)
        => \E h \in SerialHistories :
               landing_history = h /\ history_file = json_dump(h)

\* monitoring is stopped, or the session started last has run no tick yet
BeforeFirstTick == ~monitoring \/ prev_og = -1

\* the step is the first tick of a session that read its sample
FirstTick == monitoring /\ prev_og = -1 /\ prev_og' # -1

\* C26: stopping monitoring changes neither the touchdown latch nor the landing
\* history nor the approach path, and the latch keeps its value from the stop
\* to the first tick of the next session: until then only an explicit reset of
\* the landing data changes it, and the first tick, run by the thread of the
\* new session, finds the value the stop left.
C26_StopKeepsState ==
    [][/\ (monitoring /\ ~monitoring') =>
              UNCHANGED <<landing_data, landing_history, approach_path>>
       /\ (BeforeFirstTick /\ landing_data'.on_ground # landing_data.on_ground) =>
              (reset_landing_data \/ (sessions > 0 /\ Tick(sessions)))]_vars

\* C27: a new monitoring session starts from a reset detector: when the first
\* tick of the session runs, the thread of the session has was_airborne false
\* and recording_approach false, and the approach path is empty, whatever the
\* session before left.
C27_SessionStartsReset ==
    [][FirstTick =>
            /\ ~threads[sessions].was_airborne
            /\ ~threads[sessions].recording_approach
            /\ approach_path = <<>>]_vars

\* the place of an event in the order of one tick: airborne, approach point,
\* touchdown, waypoint reached (0: another signal)
EventRank(type) ==
    CASE type = "airborne" -> 1
      [] type = "approach" -> 2
      [] type = "touchdown" -> 3
      [] type = "waypoint" -> 4
      [] OTHER -> 0

\* the approach points the step emits, in emission order
RECURSIVE ApproachPointsOf(_)
ApproachPointsOf(events) ==
    IF events = <<>> THEN <<>>
    ELSE (IF Head(events).type = "approach" THEN Head(events).data ELSE <<>>)
             \o ApproachPointsOf(Tail(events))

C29_RatingTable ==
    \A k \in 1..Len(emitted) :
        emitted[k].type = "rating" =>
            LET v == sample[1].vs
                g == sample[1].g_force
                a == IF v < 0 THEN 0 - v ELSE v
                fpmScore == CASE a < 100 -> 100
                              [] a >= 100 /\ a < 200 -> 85
                              [] a >= 200 /\ a < 300 -> 70
                              [] a >= 300 /\ a < 400 -> 50
                              [] a >= 400 /\ a < 600 -> 30
                              [] a >= 600 -> 10
                gScore == CASE g < 13 -> 100
                            [] g >= 13 /\ g < 15 -> 85
                            [] g >= 15 /\ g < 18 -> 70
                            [] g >= 18 /\ g < 20 -> 50
                            [] g >= 20 /\ g < 25 -> 30
                            [] g >= 25 -> 10
                combined10 == 6 * fpmScore + 4 * gScore
                tier == CASE combined10 >= 950 -> 5
                          [] combined10 >= 800 /\ combined10 < 950 -> 4
                          [] combined10 >= 650 /\ combined10 < 800 -> 3
                          [] combined10 >= 450 /\ combined10 < 650 -> 2
                          [] combined10 < 450 -> 1
                stars == emitted[k].data[1].stars
            IN  /\ stars = tier
                /\ combined_score10(v, g) = combined10
                /\ (a = 100 => fpm_score(v) = 85)
                /\ (a = 50 /\ g = 10) => stars = 5
                /\ (a = 350 /\ g = 16) => (stars = 2 /\ combined10 = 580)
                /\ get_landing_rating(0 - v, g) = emitted[k].data[1]

\* C29, witness: a touchdown at exactly -100 fpm and 1.0 g was rated, with 4 stars
C29_Witness ==
    /\ sample # <<>>
    /\ sample[1].vs = -100
    /\ sample[1].g_force = 10
    /\ \E k \in 1..Len(emitted) : emitted[k].type = "rating" /\ emitted[k].data[1].stars = 4

\* C30: the distance is symmetric and zero on identical points: for every pair
\* of coordinates the distance from A to B is the distance from B to A, and
\* the distance from A to A is 0.
C30_DistanceSymmetric ==
    \A k \in 1..Len(emitted) :
        emitted[k].type = "distance" =>
            /\ emitted[k].data[1].there = emitted[k].data[1].back
            /\ emitted[k].data[1].self = 0

\* C30, witness: the distance between two points that differ in latitude and
\* in longitude was computed in both orders and is not 0
C30_Witness ==
    \E k \in 1..Len(emitted) :
        /\ emitted[k].type = "distance"
        /\ emitted[k].data[1].from.lat # emitted[k].data[1].to.lat
        /\ emitted[k].data[1].from.lon # emitted[k].data[1].to.lon
        /\ emitted[k].data[1].there > 0

\* thread t is in its loop with was_airborne set and the latch landing_data['on_ground'] set
LatchHeld(t) ==
    /\ threads[t].pc = "loop"
    /\ threads[t].was_airborne
    /\ landing_data.on_ground

\* C31: one run of the polling task emits at most one touchdown event. A step
\* emits at most one; the step that emits it leaves the thread with
\* was_airborne set and the latch set; from such a state no step of the run
\* emits a touchdown or releases the latch, until the thread leaves its loop;
\* and was_airborne of a thread in its loop is never set back to false.
C31_OneTouchdownPerRun ==
    [][/\ CountEmittedNext("touchdown") <= 1
       /\ \A t \in ThreadIds :
            /\ (threads[t].pc = "loop" /\ CountEmittedNext("touchdown") = 1) =>
                    /\ threads'[t].pc = "loop"
                    /\ threads'[t].was_airborne
                    /\ landing_data'.on_ground
            /\ LatchHeld(t) =>
                    /\ CountEmittedNext("touchdown") = 0
                    /\ threads'[t].pc = "loop" =>
                            (threads'[t].was_airborne /\ landing_data'.on_ground)
            /\ (threads[t].pc = "loop" /\ threads[t].was_airborne /\ threads'[t].pc = "loop") =>
                    threads'[t].was_airborne]_vars

\* C31, witness: after the touchdown of the run a later tick read the aircraft
\* in the air again, and the latch is still set
C31_Witness ==
    /\ landing_data.touchdown_fpm # <<>>
    /\ prev_og = 0
    /\ CountEmitted("position") = 1
    /\ \E t \in ThreadIds : LatchHeld(t)

\* C32: the approach statistics of a touchdown are computed over all approach
\* points emitted on earlier ticks: the touchdown step finds every emitted
\* point delivered to the approach path, and the values it stores are those
\* of the path with the points still queued for add_approach_point.
C32_TouchdownSeesEveryPoint ==
    [][TouchdownStep =>
            /\ queue = <<>>
            /\ landing_data' = touchdown_data(landing_data, sample'[1], approach_path \o queue)]_vars

\* reset_landing_data ran after the take-off of the run and the aircraft was
\* in the air at the last tick: the thread has was_airborne set, the last
\* reading was on_ground = 0, and the landing data are those of a reset
AirborneAfterReset ==
    /\ monitoring
    /\ prev_og = 0
    /\ landing_data = InitialLandingData
    /\ \E t \in ThreadIds : threads[t].pc = "loop" /\ threads[t].was_airborne

\* C33: a reset of the landing data while the aircraft is airborne does not
\* suppress the touchdown of the flight: the next tick that reads
\* on_ground = 1 emits one touchdown event and puts the landing at the head of
\* the history.
C33_ResetKeepsTouchdown ==
    [][(AirborneAfterReset /\ ReadStep /\ prev_og' = 1) =>
            /\ CountEmittedNext("touchdown") = 1
            /\ Len(landing_history'.items) = Len(landing_history.items) + 1
            /\ landing_history'.items[1] = history_entry(landing_data')]_vars

\* the step is a tick that read its sample and then logged an exception: in a
\* cruise, where no landing is recorded, the send of a pause command raised
SendFailedStep == CountEmittedNext("position") = 1 /\ CountEmittedNext("error") = 1

\* the last_check_time of the polling thread is more than 2 seconds old
CheckOverdue == \E t \in ThreadIds : threads[t].pc = "loop" /\ threads[t].elapsed > CheckPeriod

\* C34: when the send of the pause command fails in a proximity check, every
\* due waypoint whose command was not sent keeps its pause flag and gets no
\* waypoint-reached event, and the last-check time is not advanced: the check
\* is still overdue after the tick. The check stays overdue through failed
\* ticks, and a successful read with the check overdue attempts every due
\* waypoint again: its command is sent, or the send fails again and the flag
\* stays. A tick clears a flag only together with the command it sent.
C34_FailedPauseRetried ==
    [][/\ \A i \in 1..Len(waypoints) :
            /\ (SendFailedStep /\ Due(i) /\ CountAbout("pause_command", i) = 0) =>
                    /\ waypoints'[i].pause
                    /\ CountAbout("waypoint", i) = 0
                    /\ CheckOverdue'
            /\ (CheckOverdue /\ ReadStep /\ Due(i)) =>
                    \/ CountAbout("pause_command", i) = 1
                    \/ SendFailedStep /\ waypoints'[i].pause
            /\ (ReadStep /\ waypoints[i].pause /\ ~waypoints'[i].pause) =>
                    /\ CountAbout("pause_command", i) = 1
                    /\ \A k \in 1..Len(emitted') :
                            emitted'[k].type = "error" =>
                                \E j \in 1..(k - 1) :
                                    emitted'[j].type = "pause_command" /\ emitted'[j].data = <<i>>
       /\ (CheckOverdue /\ CountEmittedNext("error") = 1) => CheckOverdue']_vars

\* C34, witness: the last tick was 0.42 nm or less from a waypoint whose pause
\* is set, its send of the pause command failed, and the check is still overdue
C34_Witness ==
    /\ CountEmitted("position") = 1
    /\ CountEmitted("error") = 1
    /\ CountEmitted("pause_command") = 0
    /\ CheckOverdue
    /\ \E i \in 1..Len(waypoints) :
            /\ waypoints[i].pause
            /\ calculate_distance(sample[1].lat, sample[1].lon,
                                  waypoints[i].lat, waypoints[i].lon) < PauseRadius

\* C35: no tick emits flight-phase events that contradict each other. A tick
\* that emits a touchdown event read on_ground = 1 and emits no airborne
\* event, no approach-point event and no start of an approach recording; a
\* tick that emits an airborne or an approach-point event read on_ground = 0.
C35_NoContradictingPhases ==
    [][/\ CountEmittedNext("touchdown") > 0 =>
            /\ sample'[1].on_ground = 1
            /\ CountEmittedNext("airborne") = 0
            /\ CountEmittedNext("approach") = 0
            /\ CountEmittedNext("recording") = 0
       /\ (CountEmittedNext("airborne") > 0 \/ CountEmittedNext("approach") > 0) =>
            /\ sample'[1].on_ground = 0
            /\ CountEmittedNext("touchdown") = 0]_vars

\* C35, witness: a touchdown was emitted on a sample below 3000 ft that sinks
\* faster than 100 fpm, by a thread that was recording the approach before
C35_Witness ==
    /\ CountEmitted("touchdown") = 1
    /\ CountEmitted("approach") = 0
    /\ sample[1].on_ground = 1
    /\ sample[1].alt < ApproachAlt
    /\ sample[1].vs < ApproachVs
    /\ approach_path # <<>>

\* C36: whatever the history file held at the start, the loaded history is a
\* sequence on which the record step of a touchdown succeeds: the tick that
\* detects a touchdown finds a list, puts the new record at its index 0,
\* keeps at most 100 records and emits the touchdown event.
C36_LoadedHistoryTakesRecord ==
    [][TouchdownStep =>
            /\ landing_history.list
            /\ landing_history'.list
            /\ Len(landing_history'.items) \in 1..HistoryCap
            /\ landing_history'.items[1] = history_entry(landing_data')
            /\ CountEmittedNext("touchdown") = 1]_vars

====
